---- MODULE Spec2Model ----
(***************************************************************************)
(* Model of the Shopify custom-variant server.  The repository holds three *)
(* versions of server.js:                                                  *)
(*   "A"  src/unnamed/part_001            (image sent as attachment)       *)
(*   "B"  src/unnamed/part_002:1-259      (upload to Files, debug helper)  *)
(*   "C"  src/unnamed/part_002:261-434    (upload to Files, bare helper)   *)
(* A request handler runs from one await to the next as one atomic step    *)
(* (Node's event loop); the upstream store answers a pending call in the   *)
(* same step that resumes the handler.  req.body of the webhook route is   *)
(* the raw byte buffer that express.raw hands to the handler.              *)
(***************************************************************************)
EXTENDS Integers, Sequences, FiniteSets, TLC

\* ---------------------------------------------------------------- bounds
MaxReq == 2
MaxItems == 2
MaxClock == 2
MaxWebhooks == 1

Reqs == 1..MaxReq
Variants == {"A", "B", "C"}

\* ------------------------------------------------------------ JS values
Undef == [t |-> "undef", s |-> <<>>]
Null == [t |-> "null", s |-> <<>>]
Num == [t |-> "num", s |-> <<>>]
Str(s) == [t |-> "str", s |-> s]

\* JavaScript truthiness of a value (the number modelled is non-zero)
Truthy(v) == \/ v.t = "num"
             \/ v.t = "str" /\ v.s # <<>>

\* String.prototype.startsWith
StartsWith(s, p) == /\ Len(s) >= Len(p)
                    /\ SubSeq(s, 1, Len(p)) = p

DigitChar == <<"0", "1", "2", "3", "4", "5", "6", "7", "8", "9">>

RECURSIVE ToStr(_)
\* decimal rendering of a non-negative integer inside a template literal
ToStr(n) == IF n < 10 THEN <<DigitChar[n + 1]>>
            ELSE ToStr(n \div 10) \o <<DigitChar[(n % 10) + 1]>>

\* ------------------------------------------------------- configuration
TEMP_SKU_PREFIX == <<"C", "U", "S", "T", "-">>
Secrets == {"", "k1"}
AdminKeys == {"", "a1"}

\* --------------------------------------------------------------- store
VariantIdOf(pid) == 10 * pid + 1

\* products the store holds before the server starts: a published regular
\* product, a temporary product left over from an earlier run, and an
\* unpublished draft that is not temporary
Catalog == {
  [id |-> 1, published |-> TRUE,
   variants |-> <<[id |-> 11, sku |-> Str(<<"T">>)]>>],
  [id |-> 2, published |-> FALSE,
   variants |-> <<[id |-> 21, sku |-> Str(TEMP_SKU_PREFIX \o <<"0">>)]>>],
  [id |-> 3, published |-> FALSE,
   variants |-> <<[id |-> 31, sku |-> Null], [id |-> 32, sku |-> Str(<<"D">>)]>>] }

\* the id the store gives the next product it creates
FirstNewId == Cardinality(Catalog) + 1

\* ---------------------------------------------------------------- state
VARIABLES variant, secret, adminKey, now, store, nextId, nstart,
          pc, req, loc, calls, resp

vars == <<variant, secret, adminKey, now, store, nextId, nstart,
          pc, req, loc, calls, resp>>

\* ------------------------------------------------ upstream HTTP replies
\* a reply of the store: ok = 2xx status, json = the body parses as JSON
Data(k, n) == [k |-> k, n |-> n]
Reply(ok, json, data) == [ok |-> ok, json |-> json, data |-> data]
ErrJson == Reply(FALSE, TRUE, Data("errors", 0))
ErrText == Reply(FALSE, FALSE, Data("text", 0))
Failures == {ErrJson, ErrText}

\* what the REST helper hands back for an upstream reply: variants A and B
\* throw on a non-2xx status, every variant throws on a body that is not JSON
shopifyRequest(v, res) ==
  IF v \in {"A", "B"} /\ ~res.ok THEN [thrown |-> TRUE, data |-> Data("none", 0)]
  ELSE IF ~res.json THEN [thrown |-> TRUE, data |-> Data("none", 0)]
  ELSE [thrown |-> FALSE, data |-> res.data]

\* what the GraphQL helper of part_001 hands back: it never looks at the
\* status and throws only on a body that is not JSON
shopifyRequestGraphQL(res) ==
  IF ~res.json THEN [thrown |-> TRUE, data |-> Data("none", 0)]
  ELSE [thrown |-> FALSE, data |-> res.data]

\* ------------------------------------------------------------ requests
NoBody == [parse |-> "none", li |-> "absent", items |-> <<>>]
NoReq == [kind |-> "none", image |-> "undef", hdr |-> <<>>, body |-> NoBody,
          akey |-> ""]
NoLoc == [idx |-> 0, toCleanup |-> <<>>, contrib |-> {}, di |-> 0, sku |-> <<>>,
          products |-> <<>>, deleted |-> <<>>, parsed |-> FALSE]
NoResp == [status |-> -1, success |-> FALSE, productId |-> 0, variantId |-> 0,
           sku |-> Undef, deleted |-> <<>>, deletedCount |-> 0]

Call(op, arg, item) == [op |-> op, arg |-> arg, item |-> item, res |-> "pending"]

\* the last call of a log, answered
Answered(log, r) == [log EXCEPT ![Len(log)].res = r]

Outcome(res) == IF res.ok THEN "ok" ELSE IF res.json THEN "errjson" ELSE "errtext"

Init ==
  /\ variant \in Variants
  /\ secret \in Secrets
  /\ adminKey \in AdminKeys
  /\ now = 1
  /\ store = Catalog
  /\ nextId = FirstNewId
  /\ nstart = 0
  /\ pc = [r \in Reqs |-> "idle"]
  /\ req = [r \in Reqs |-> NoReq]
  /\ loc = [r \in Reqs |-> NoLoc]
  /\ calls = [r \in Reqs |-> <<>>]
  /\ resp = [r \in Reqs |-> NoResp]

\* Date.now() advances
Tick ==
  /\ now < MaxClock
  /\ now' = now + 1
  /\ UNCHANGED <<variant, secret, adminKey, store, nextId, nstart,
                 pc, req, loc, calls, resp>>

\* a request arrives in the next free slot
Arrives(r) == /\ r = nstart + 1
              /\ pc[r] = "idle"
              /\ nstart' = nstart + 1

Respond(r, rec) == /\ resp' = [resp EXCEPT ![r] = rec]
                   /\ pc' = [pc EXCEPT ![r] = "done"]

Status(code) == [NoResp EXCEPT !.status = code]

\* ------------------------------------------- POST /api/create-custom-product
\* imageBase64 of the request body: absent, null, "", a base64 string, or a
\* base64 string behind a data-URI prefix
Images == {"undef", "null", "empty", "raw", "datauri"}

\* a check that only catches a missing field
ImageMissing(img) == img \in {"undef", "null"}

\* !imageBase64
ImageFalsy(img) == img \in {"undef", "null", "empty"}

\* a payload SKU built from the timestamp alone
NewSkuNoPrefix(t) == ToStr(t)

\* the SKU createHiddenProductWithImage puts in the product payload
NewSku(t) == TEMP_SKU_PREFIX \o ToStr(t)

StartCreate(r) ==
  /\ Arrives(r)
  /\ \E img \in Images :
       /\ req' = [req EXCEPT ![r] = [NoReq EXCEPT !.kind = "create", !.image = img]]
       /\ IF ImageFalsy(img)
          THEN /\ Respond(r, Status(400))
               /\ UNCHANGED <<loc, calls>>
          ELSE IF variant = "A"
          THEN /\ loc' = [loc EXCEPT ![r].sku = NewSku(now)]
               /\ calls' = [calls EXCEPT ![r] = Append(@, Call("create", 0, 0))]
               /\ pc' = [pc EXCEPT ![r] = "c_create"]
               /\ UNCHANGED resp
          ELSE /\ calls' = [calls EXCEPT ![r] = Append(@, Call("upload", 0, 0))]
               /\ pc' = [pc EXCEPT ![r] = "c_upload"]
               /\ UNCHANGED <<loc, resp>>
  /\ UNCHANGED <<variant, secret, adminKey, now, store, nextId>>

\* replies to POST files.json: a file with a url, a body without one, an error
UploadReplies == {Reply(TRUE, TRUE, Data("url", 0)), Reply(TRUE, TRUE, Data("nofile", 0))}
                   \cup Failures

\* the upload call returns (variants B and C)
UploadReturns(r) ==
  /\ pc[r] = "c_upload"
  /\ \E res \in UploadReplies :
       LET got == shopifyRequest(variant, res)
           log == Answered(calls[r], Outcome(res))
       IN IF got.thrown \/ got.data.k # "url"
          THEN /\ Respond(r, Status(500))
               /\ calls' = [calls EXCEPT ![r] = log]
               /\ UNCHANGED loc
          ELSE /\ loc' = [loc EXCEPT ![r].sku = NewSku(now)]
               /\ calls' = [calls EXCEPT ![r] = Append(log, Call("create", 0, 0))]
               /\ pc' = [pc EXCEPT ![r] = "c_create"]
               /\ UNCHANGED resp
  /\ UNCHANGED <<variant, secret, adminKey, now, store, nextId, nstart, req>>

\* shapes of the body of a 2xx reply to POST products.json: the product with
\* its variant, a product object without variants, no product object
CreateShapes == {"echo", "novariants", "noproduct"}

NewProduct(pid, sku) ==
  [id |-> pid, published |-> FALSE,
   variants |-> <<[id |-> VariantIdOf(pid), sku |-> Str(sku)]>>]

\* the product-creation call returns
CreateReturns(r) ==
  /\ pc[r] = "c_create"
  /\ \/ \E shape \in CreateShapes :
          LET got == shopifyRequest(variant, Reply(TRUE, TRUE, Data(shape, nextId)))
          IN /\ store' = store \cup {NewProduct(nextId, loc[r].sku)}
             /\ nextId' = nextId + 1
             /\ calls' = [calls EXCEPT ![r] = Answered(@, shape)]
             /\ IF got.thrown \/ got.data.k = "noproduct"
                THEN Respond(r, Status(500))
                ELSE IF got.data.k = "novariants"
                THEN IF variant = "C"
                     THEN Respond(r, Status(500))
                     ELSE Respond(r, [NoResp EXCEPT !.status = 200, !.success = TRUE,
                                        !.productId = nextId, !.sku = Null])
                ELSE Respond(r, [NoResp EXCEPT !.status = 200, !.success = TRUE,
                                   !.productId = nextId,
                                   !.variantId = VariantIdOf(nextId),
                                   !.sku = Str(loc[r].sku)])
     \/ \E res \in Failures :
          \* the helper throws, or the error body carries no product object
          /\ shopifyRequest(variant, res).thrown \/ res.data.k # "echo"
          /\ Respond(r, Status(500))
          /\ calls' = [calls EXCEPT ![r] = Answered(@, Outcome(res))]
          /\ UNCHANGED <<store, nextId>>
  /\ UNCHANGED <<variant, secret, adminKey, now, nstart, req, loc>>

\* ------------------------------------------------ POST /webhooks/orders/create
\* base64 HMAC-SHA256 digest of the raw body under a key: a string of fixed
\* length that differs whenever the key or the body differs
Hmac(key, body) == <<key, body>>

\* crypto.timingSafeEqual on the two buffers: throws when their lengths differ
timingSafeEqual(a, b) == [thrown |-> Len(a) # Len(b), eq |-> a = b]

\* X-Shopify-Hmac-Sha256 headers a sender may attach to a body: none, the
\* digest of the body under the right key, under another key, the digest of
\* other bytes under the right key, and a truncated digest
HeadersFor(body) == {<<>>, Hmac("k1", body), Hmac("k2", body), Hmac("k1", NoBody),
                     <<"k1">>}

\* a signature check without the `if (secret)` guard
VerifyAlways(v, sec, hdr, body) ==
  LET cmp == timingSafeEqual(Hmac(sec, body), hdr)
  IN IF cmp.thrown THEN (IF v = "C" THEN "uncaught" ELSE "401")
     ELSE IF ~cmp.eq THEN "401" ELSE "pass"

\* outcome of the signature check: "pass", "401", or "uncaught" (variant C has
\* no try/catch around the comparison)
Verify(v, sec, hdr, body) ==
  IF sec = "" THEN "pass"
  ELSE LET cmp == timingSafeEqual(Hmac(sec, body), hdr)
       IN IF cmp.thrown THEN (IF v = "C" THEN "uncaught" ELSE "401")
          ELSE IF ~cmp.eq THEN "401" ELSE "pass"

NullItem == [nul |-> TRUE, sku |-> Undef, vid |-> 0]
Item(sku, vid) == [nul |-> FALSE, sku |-> sku, vid |-> vid]

\* line items an order may carry whatever the server did: null, items whose
\* sku is absent, empty, a number, a string without the prefix, and prefixed
\* items without and with a variant_id (vid 0 stands for no variant_id)
StaticItems == {
  NullItem,
  Item(Undef, 21),
  Item(Str(<<>>), 21),
  Item(Num, 21),
  Item(Str(<<"C", "U", "S", "T">>), 21),
  Item(Str(TEMP_SKU_PREFIX \o <<"0">>), 0),
  Item(Str(TEMP_SKU_PREFIX \o <<"0">>), 21) }

\* a line item for a variant that a create response handed to the frontend
CartItems == {Item(resp[q].sku, resp[q].variantId) :
                q \in {x \in Reqs : /\ req[x].kind = "create"
                                    /\ resp[x].status = 200
                                    /\ resp[x].variantId # 0}}

SeqsUpTo(S, n) == UNION {[1..k -> S] : k \in 0..n}

Body(parse, li, items) == [parse |-> parse, li |-> li, items |-> items]

\* raw bodies: not JSON, JSON null, a JSON scalar, an object without
\* line_items, an object whose line_items is a number, and objects whose
\* line_items is a list
Bodies == {Body("bad", "absent", <<>>), Body("null", "absent", <<>>),
           Body("scalar", "absent", <<>>), Body("obj", "absent", <<>>),
           Body("obj", "num", <<>>)}
          \cup {Body("obj", "list", s) : s \in SeqsUpTo(StaticItems \cup CartItems, MaxItems)}

\* a handler that takes a body that is not JSON for an empty order
ParseThrowsLenient(body) == \/ body.parse = "null"
                            \/ body.parse = "obj" /\ body.li = "num"

\* a handler that iterates bodyJson.line_items without the `|| []`
ParseThrowsNoDefault(body) == \/ body.parse \in {"bad", "null"}
                              \/ body.parse = "obj" /\ body.li # "list"

\* JSON.parse(req.body.toString('utf8')) and bodyJson.line_items || [] fail:
\* the text is not JSON, the value is null, or line_items is not iterable
ParseThrows(body) == \/ body.parse = "bad"
                     \/ body.parse = "null"
                     \/ body.parse = "obj" /\ body.li = "num"

RECURSIVE ScanNoPrefix(_, _)
\* a loop that looks up every item that has a truthy sku and a variant_id
ScanNoPrefix(items, i) ==
  IF i > Len(items) THEN [k |-> "end", i |-> i]
  ELSE LET li == items[i]
       IN IF li.nul THEN [k |-> "throw", i |-> i]
          ELSE IF ~Truthy(li.sku) THEN ScanNoPrefix(items, i + 1)
          ELSE IF li.sku.t # "str" THEN [k |-> "throw", i |-> i]
          ELSE IF li.vid # 0 THEN [k |-> "lookup", i |-> i]
          ELSE ScanNoPrefix(items, i + 1)

RECURSIVE Scan(_, _)
\* the for-of loop over the line items from index i up to its next await:
\* a lookup for item i, a TypeError at item i, or the end of the list
Scan(items, i) ==
  IF i > Len(items) THEN [k |-> "end", i |-> i]
  ELSE LET li == items[i]
           sku == IF li.nul \/ ~Truthy(li.sku) THEN Str(<<>>) ELSE li.sku
       IN IF li.nul THEN [k |-> "throw", i |-> i]
          ELSE IF ~Truthy(sku) THEN Scan(items, i + 1)
          ELSE IF sku.t # "str" THEN [k |-> "throw", i |-> i]
          ELSE IF StartsWith(sku.s, TEMP_SKU_PREFIX) /\ li.vid # 0
               THEN [k |-> "lookup", i |-> i]
          ELSE Scan(items, i + 1)

InSeq(s, x) == \E k \in 1..Len(s) : s[k] = x

\* a collection that never takes the product id
AddNothing(v, s, x) == s

\* toCleanup.add(pid) on the Set of variants A and B, push on the array of C
AddCleanup(v, s, x) == IF v \in {"A", "B"} /\ InSeq(s, x) THEN s ELSE Append(s, x)

\* the handler from line item i of `items` on, with locals l and call log `log`
WebhookResume(r, items, l, log, i) ==
  LET sc == Scan(items, i)
  IN CASE sc.k = "throw" ->
            /\ Respond(r, Status(500))
            /\ loc' = [loc EXCEPT ![r] = l]
            /\ calls' = [calls EXCEPT ![r] = log]
       [] sc.k = "lookup" ->
            /\ pc' = [pc EXCEPT ![r] = "w_lookup"]
            /\ loc' = [loc EXCEPT ![r] = [l EXCEPT !.idx = sc.i]]
            /\ calls' = [calls EXCEPT ![r] =
                           Append(log, Call("lookup", items[sc.i].vid, sc.i))]
            /\ UNCHANGED resp
       [] sc.k = "end" /\ l.toCleanup = <<>> ->
            /\ Respond(r, Status(200))
            /\ loc' = [loc EXCEPT ![r] = l]
            /\ calls' = [calls EXCEPT ![r] = log]
       [] sc.k = "end" /\ l.toCleanup # <<>> ->
            /\ pc' = [pc EXCEPT ![r] = "w_delete"]
            /\ loc' = [loc EXCEPT ![r] = [l EXCEPT !.di = 1]]
            /\ calls' = [calls EXCEPT ![r] = Append(log, Call("delete", l.toCleanup[1], 0))]
            /\ UNCHANGED resp

\* what becomes of a handler whose exception nothing catches: the request gets
\* no response (status 0), or the framework's error handler answers 500
UncaughtStatus == {0, 500}

StartWebhook(r) ==
  /\ Arrives(r)
  /\ Cardinality({q \in Reqs : req[q].kind = "webhook"}) < MaxWebhooks
  /\ \E body \in Bodies : \E hdr \in HeadersFor(body) :
       LET v == Verify(variant, secret, hdr, body)
       IN /\ req' = [req EXCEPT ![r] = [NoReq EXCEPT !.kind = "webhook",
                                           !.hdr = hdr, !.body = body]]
          /\ CASE v = "401" ->
                    /\ Respond(r, Status(401))
                    /\ UNCHANGED <<loc, calls>>
               [] v = "uncaught" ->
                    /\ \E st \in UncaughtStatus : Respond(r, Status(st))
                    /\ UNCHANGED <<loc, calls>>
               [] v = "pass" /\ ParseThrows(body) ->
                    /\ Respond(r, Status(500))
                    /\ loc' = [loc EXCEPT ![r].parsed = TRUE]
                    /\ UNCHANGED calls
               [] v = "pass" /\ ~ParseThrows(body) ->
                    WebhookResume(r, body.items, [loc[r] EXCEPT !.parsed = TRUE], calls[r], 1)
  /\ UNCHANGED <<variant, secret, adminKey, now, store, nextId>>

OwnerOf(vid) == {p \in store : \E k \in 1..Len(p.variants) : p.variants[k].id = vid}

\* replies to GET variants/<vid>.json
LookupReplies(vid) == {Reply(TRUE, TRUE, Data("variant", p.id)) : p \in OwnerOf(vid)}
                      \cup Failures

\* the variant lookup for line item loc[r].idx returns
LookupReturns(r) ==
  /\ pc[r] = "w_lookup"
  /\ \E res \in LookupReplies(req[r].body.items[loc[r].idx].vid) :
       LET got == shopifyRequest(variant, res)
           l == IF ~got.thrown /\ got.data.k = "variant"
                THEN [loc[r] EXCEPT !.toCleanup = AddCleanup(variant, @, got.data.n),
                                    !.contrib = @ \cup {loc[r].idx}]
                ELSE loc[r]
       IN WebhookResume(r, req[r].body.items, l, Answered(calls[r], Outcome(res)),
                        loc[r].idx + 1)
  /\ UNCHANGED <<variant, secret, adminKey, now, store, nextId, nstart, req>>

Exists(pid) == \E p \in store : p.id = pid

\* the store handles DELETE products/<pid>.json and replies
Deletion(pid, res) ==
  \/ /\ Exists(pid)
     /\ res = Reply(TRUE, TRUE, Data("empty", 0))
     /\ store' = {p \in store : p.id # pid}
  \/ /\ res \in Failures
     /\ UNCHANGED store

DeleteReplies == {Reply(TRUE, TRUE, Data("empty", 0))} \cup Failures

\* a delete loop without the try/catch around each deleteProduct call
deleteStepNoCatch(thrown) == IF thrown THEN "abort" ELSE "continue"

\* try { await deleteProduct(pid) } catch (e) { console.error(...) }: the loop
\* goes on whether or not the call threw
deleteStep(thrown) == "continue"

\* the delete call for toCleanup[di] returns
DeleteReturns(r) ==
  /\ pc[r] = "w_delete"
  /\ \E res \in DeleteReplies :
       LET l == loc[r]
           log == Answered(calls[r], Outcome(res))
           got == shopifyRequest(variant, res)
       IN /\ Deletion(l.toCleanup[l.di], res)
          /\ IF deleteStep(got.thrown) = "abort"
             THEN /\ Respond(r, Status(500))
                  /\ calls' = [calls EXCEPT ![r] = log]
                  /\ UNCHANGED loc
             ELSE IF l.di < Len(l.toCleanup)
             THEN /\ loc' = [loc EXCEPT ![r].di = l.di + 1]
                  /\ calls' = [calls EXCEPT ![r] =
                                 Append(log, Call("delete", l.toCleanup[l.di + 1], 0))]
                  /\ UNCHANGED <<pc, resp>>
             ELSE /\ Respond(r, Status(200))
                  /\ calls' = [calls EXCEPT ![r] = log]
                  /\ UNCHANGED loc
  /\ UNCHANGED <<variant, secret, adminKey, now, nextId, nstart, req>>

\* ------------------------------------------- POST /admin/cleanup-temp-products
\* x-admin-key headers: none, the configured key, another key
AdminHeaders == {"", "a1", "zz"}

\* a key check that lets a request without the header through
UnauthorizedIfPresent(key, hdr) == key # "" /\ hdr # "" /\ hdr # key

\* ADMIN_KEY && req.get('x-admin-key') !== ADMIN_KEY
Unauthorized(key, hdr) == key # "" /\ hdr # key

RECURSIVE SortById(_)
\* the products of a listing, in the store's order (ascending id)
SortById(S) ==
  IF S = {} THEN <<>>
  ELSE LET p == CHOOSE x \in S : \A y \in S : x.id <= y.id
       IN <<p>> \o SortById(S \ {p})

\* GET products.json?limit=250&published_status=unpublished
Listing == SortById({p \in store : ~p.published})

\* p.variants.some(v => v.sku && v.sku.startsWith(TEMP_SKU_PREFIX))
shouldDelete(p) ==
  \E k \in 1..Len(p.variants) :
    /\ Truthy(p.variants[k].sku)
    /\ StartsWith(p.variants[k].sku.s, TEMP_SKU_PREFIX)

RECURSIVE NextDeletable(_, _)
\* index of the first product from i on that the loop deletes, 0 if none
NextDeletable(products, i) ==
  IF i > Len(products) THEN 0
  ELSE IF shouldDelete(products[i]) THEN i
  ELSE NextDeletable(products, i + 1)

SweepResponse(deleted) ==
  [NoResp EXCEPT !.status = 200, !.success = TRUE, !.deleted = deleted,
                 !.deletedCount = Len(deleted)]

\* the sweep loop from product i on, with the `deleted` list so far
SweepResume(r, products, deleted, log, i) ==
  LET j == NextDeletable(products, i)
  IN IF j = 0
     THEN /\ Respond(r, SweepResponse(deleted))
          /\ loc' = [loc EXCEPT ![r].products = products, ![r].deleted = deleted]
          /\ calls' = [calls EXCEPT ![r] = log]
     ELSE /\ pc' = [pc EXCEPT ![r] = "s_delete"]
          /\ loc' = [loc EXCEPT ![r].products = products, ![r].deleted = deleted,
                                ![r].di = j]
          /\ calls' = [calls EXCEPT ![r] = Append(log, Call("delete", products[j].id, j))]
          /\ UNCHANGED resp

StartSweep(r) ==
  /\ Arrives(r)
  /\ \E hdr \in AdminHeaders :
       /\ req' = [req EXCEPT ![r] = [NoReq EXCEPT !.kind = "sweep", !.akey = hdr]]
       /\ IF Unauthorized(adminKey, hdr)
          THEN /\ Respond(r, Status(401))
               /\ UNCHANGED calls
          ELSE /\ pc' = [pc EXCEPT ![r] = "s_list"]
               /\ calls' = [calls EXCEPT ![r] = Append(@, Call("list", 0, 0))]
               /\ UNCHANGED resp
  /\ UNCHANGED <<variant, secret, adminKey, now, store, nextId, loc>>

\* the listing call returns
ListReturns(r) ==
  /\ pc[r] = "s_list"
  /\ \E res \in {Reply(TRUE, TRUE, Data("products", 0))} \cup Failures :
       LET got == shopifyRequest(variant, res)
           log == Answered(calls[r], Outcome(res))
           \* listRes.products || []
           products == IF got.data.k = "products" THEN Listing ELSE <<>>
       IN IF got.thrown
          THEN /\ Respond(r, Status(500))
               /\ calls' = [calls EXCEPT ![r] = log]
               /\ UNCHANGED loc
          ELSE SweepResume(r, products, <<>>, log, 1)
  /\ UNCHANGED <<variant, secret, adminKey, now, store, nextId, nstart, req>>

\* the delete call for products[di] returns
SweepDeleteReturns(r) ==
  /\ pc[r] = "s_delete"
  /\ \E res \in DeleteReplies :
       LET l == loc[r]
           pid == l.products[l.di].id
           got == shopifyRequest(variant, res)
           deleted == IF got.thrown THEN l.deleted ELSE Append(l.deleted, pid)
       IN /\ Deletion(pid, res)
          /\ IF deleteStep(got.thrown) = "abort"
             THEN /\ Respond(r, Status(500))
                  /\ calls' = [calls EXCEPT ![r] = Answered(calls[r], Outcome(res))]
                  /\ UNCHANGED loc
             ELSE SweepResume(r, l.products, deleted,
                              Answered(calls[r], Outcome(res)), l.di + 1)
  /\ UNCHANGED <<variant, secret, adminKey, now, nextId, nstart, req>>

Next ==
  \/ Tick
  \/ \E r \in Reqs : StartCreate(r)
  \/ \E r \in Reqs : UploadReturns(r)
  \/ \E r \in Reqs : CreateReturns(r)
  \/ \E r \in Reqs : StartWebhook(r)
  \/ \E r \in Reqs : LookupReturns(r)
  \/ \E r \in Reqs : DeleteReturns(r)
  \/ \E r \in Reqs : StartSweep(r)
  \/ \E r \in Reqs : ListReturns(r)
  \/ \E r \in Reqs : SweepDeleteReturns(r)

Spec == Init /\ [][Next]_vars

\* one webhook delivery handled on its own, whatever the configuration
NextWebhook ==
  \/ nstart = 0 /\ StartWebhook(1)
  \/ LookupReturns(1)
  \/ DeleteReturns(1)

SpecWebhook == Init /\ [][NextWebhook]_vars

\* create requests only, handled concurrently while the clock advances
NextCreate ==
  \/ Tick
  \/ \E r \in Reqs : StartCreate(r)
  \/ \E r \in Reqs : UploadReturns(r)
  \/ \E r \in Reqs : CreateReturns(r)

SpecCreate == Init /\ [][NextCreate]_vars

\* the checkout flow: one create request, then the webhook of the order
NextOrder ==
  \/ nstart = 0 /\ StartCreate(1)
  \/ UploadReturns(1)
  \/ CreateReturns(1)
  \/ nstart = 1 /\ StartWebhook(2)
  \/ LookupReturns(2)
  \/ DeleteReturns(2)

SpecOrder == Init /\ [][NextOrder]_vars

\* a temporary product of an earlier create request whose order never came
Abandoned == NewProduct(FirstNewId, NewSku(0))

\* the server starts on a store that holds an abandoned temporary product
InitSweep ==
  /\ variant \in Variants
  /\ secret \in Secrets
  /\ adminKey \in AdminKeys
  /\ now = 1
  /\ store = Catalog \cup {Abandoned}
  /\ nextId = FirstNewId + 1
  /\ nstart = 0
  /\ pc = [r \in Reqs |-> "idle"]
  /\ req = [r \in Reqs |-> NoReq]
  /\ loc = [r \in Reqs |-> NoLoc]
  /\ calls = [r \in Reqs |-> <<>>]
  /\ resp = [r \in Reqs |-> NoResp]

\* admin sweeps only, handled concurrently
NextSweep ==
  \/ \E r \in Reqs : StartSweep(r)
  \/ \E r \in Reqs : ListReturns(r)
  \/ \E r \in Reqs : SweepDeleteReturns(r)

SpecSweep == InitSweep /\ [][NextSweep]_vars

\* ------------------------------------------------------------- properties
Done(r) == pc[r] = "done"
IsWebhook(r) == req[r].kind = "webhook"
IsCreate(r) == req[r].kind = "create"
IsSweep(r) == req[r].kind = "sweep"

CallIdx(r, op) == {k \in 1..Len(calls[r]) : calls[r][k].op = op}

\* the header is the digest of the raw body under the configured secret
SignatureMatches(r) == req[r].hdr = Hmac(secret, req[r].body)

\* the request passes or skips verification
Verified(r) == secret = "" \/ SignatureMatches(r)

\* the raw body is JSON text
ParsesAsJson(body) == body.parse # "bad"

\* a line item that is an object whose sku is absent, falsy or a string
WellFormedItem(li) == ~li.nul /\ (li.sku.t = "str" \/ ~Truthy(li.sku))

\* a JSON value other than null whose line_items is absent or a list of
\* well-formed items
WellFormed(body) ==
  /\ body.parse \in {"scalar", "obj"}
  /\ body.li \in {"absent", "list"}
  /\ \A i \in 1..Len(body.items) : WellFormedItem(body.items[i])

\* C1: in every server variant, a webhook whose header is not the digest of
\* the raw body under the configured secret (missing and wrong-length headers
\* included) is answered 401 and causes no variant lookup and no delete call.
C1_MismatchRejected ==
  \A r \in Reqs :
    (IsWebhook(r) /\ Done(r) /\ secret # "" /\ ~SignatureMatches(r))
      => /\ resp[r].status = 401
         /\ CallIdx(r, "lookup") = {}
         /\ CallIdx(r, "delete") = {}

C3_OneDeletePerProduct ==
  \A r \in Reqs :
    (IsWebhook(r) /\ Done(r) /\ Verified(r) /\ resp[r].status = 200)
      => \A k \in 1..Len(loc[r].toCleanup) :
           Cardinality({c \in CallIdx(r, "delete") :
                          calls[r][c].arg = loc[r].toCleanup[k]}) = 1

\* C4: in the webhook handler and in the admin sweep, whichever delete calls of
\* a batch fail, a delete call is issued for every product id of the batch and
\* the handler completes with its success response.
C4_BestEffortDeletion ==
  \A r \in Reqs :
    /\ (IsWebhook(r) /\ Done(r) /\ loc[r].di > 0)
         => /\ \A k \in 1..Len(loc[r].toCleanup) :
                 \E c \in CallIdx(r, "delete") : calls[r][c].arg = loc[r].toCleanup[k]
            /\ resp[r].status = 200
    /\ (IsSweep(r) /\ Done(r) /\ CallIdx(r, "delete") # {})
         => /\ \A k \in 1..Len(loc[r].products) :
                 shouldDelete(loc[r].products[k])
                   => \E c \in CallIdx(r, "delete") :
                        calls[r][c].arg = loc[r].products[k].id
            /\ resp[r].status = 200

C4_Witness ==
  \E r \in Reqs :
    /\ IsWebhook(r) /\ Done(r)
    /\ \E c \in CallIdx(r, "delete") :
         /\ calls[r][c].res # "ok"
         /\ c + 1 \in CallIdx(r, "delete")
         /\ calls[r][c + 1].arg # calls[r][c].arg

NotTemporary(li) ==
  \/ ~Truthy(li.sku)
  \/ li.sku.t # "str"
  \/ ~StartsWith(li.sku.s, TEMP_SKU_PREFIX)
  \/ li.vid = 0

\* C6: a line item whose sku is absent, empty or without the reserved prefix,
\* or that carries no variant_id, causes no variant lookup and adds no product
\* id to the products to delete.
C6_OtherItemsUntouched ==
  \A r \in Reqs :
    IsWebhook(r) =>
      \A i \in 1..Len(req[r].body.items) :
        (~req[r].body.items[i].nul /\ NotTemporary(req[r].body.items[i]))
          => /\ \A c \in CallIdx(r, "lookup") : calls[r][c].item # i
             /\ i \notin loc[r].contrib

C6_Witness ==
  \E r \in Reqs :
    /\ IsWebhook(r) /\ Done(r) /\ resp[r].status = 200
    /\ Len(req[r].body.items) = 2
    /\ ~req[r].body.items[1].nul
    /\ NotTemporary(req[r].body.items[1])
    /\ req[r].body.items[1].vid = req[r].body.items[2].vid
    /\ loc[r].contrib = {2}
    /\ CallIdx(r, "delete") # {}

\* the lookups and deletions the webhook issued all succeeded
UpstreamSucceeded(w) ==
  \A c \in CallIdx(w, "lookup") \cup CallIdx(w, "delete") : calls[w][c].res = "ok"

\* webhook w carries a line item with the sku and variant id that create
\* request c returned
OrdersCreated(c, w) ==
  /\ IsCreate(c) /\ Done(c) /\ resp[c].success /\ resp[c].variantId # 0
  /\ IsWebhook(w) /\ Done(w) /\ Verified(w)
  /\ \E i \in 1..Len(req[w].body.items) :
       req[w].body.items[i] = Item(resp[c].sku, resp[c].variantId)

LacksImage(r) == req[r].image \in {"undef", "null", "empty"}

\* C8: a create request whose body lacks imageBase64 gets a 4xx response with
\* success=false and issues no upstream call.
C8_MissingImageRejected ==
  \A r \in Reqs :
    (IsCreate(r) /\ LacksImage(r))
      => /\ Done(r)
         /\ resp[r].status \in 400..499
         /\ ~resp[r].success
         /\ calls[r] = <<>>

C8_Witness ==
  \E r \in Reqs :
    /\ IsCreate(r) /\ req[r].image = "empty" /\ Done(r)
    /\ resp[r].status = 400
    /\ store = Catalog

Prefixed(v) == v.t = "str" /\ StartsWith(v.s, TEMP_SKU_PREFIX)

\* C9 as claimed: the sku of every success response to a create request that
\* carries imageBase64 starts with the reserved prefix, whatever product
\* object the upstream call returned.
C9_SkuPrefixed ==
  \A r \in Reqs :
    (IsCreate(r) /\ ~LacksImage(r) /\ Done(r) /\ resp[r].success)
      => Prefixed(resp[r].sku)

\* the upstream create call returned the product with its variant
EchoedVariant(r) == \E c \in CallIdx(r, "create") : calls[r][c].res = "echo"

\* C9 amended: the sku of a success response starts with the reserved prefix
\* whenever the returned product object carries the created variant; a
\* returned product without variants yields a success response whose sku is
\* null.
C9_SkuPrefixedWhenEchoed ==
  \A r \in Reqs :
    (IsCreate(r) /\ ~LacksImage(r) /\ Done(r) /\ resp[r].success)
      => IF EchoedVariant(r) THEN Prefixed(resp[r].sku) ELSE resp[r].sku = Null

C9_Witness ==
  \E r \in Reqs :
    /\ IsCreate(r) /\ ~LacksImage(r) /\ Done(r) /\ resp[r].success
    /\ EchoedVariant(r)
    /\ Prefixed(resp[r].sku)

\* C10: the SKUs two create requests put in their product payloads differ,
\* also when both read the same Date.now() value.
C10_UniqueSkus ==
  \A p, q \in Reqs :
    (p # q /\ IsCreate(p) /\ IsCreate(q) /\ loc[p].sku # <<>> /\ loc[q].sku # <<>>)
      => loc[p].sku # loc[q].sku

\* the sweep request may proceed: no key is configured or the header is the key
Authorised(r) == adminKey = "" \/ req[r].akey = adminKey

\* C11: with no admin key configured every sweep request proceeds to the
\* product listing; with a key configured, a request whose x-admin-key header
\* is missing or differs gets 401 with success=false and issues no upstream
\* call.
C11_AdminKeyGuard ==
  \A r \in Reqs :
    IsSweep(r) =>
      /\ adminKey = "" => CallIdx(r, "list") # {}
      /\ (adminKey # "" /\ req[r].akey # adminKey)
           => /\ Done(r)
              /\ resp[r].status = 401
              /\ ~resp[r].success
              /\ calls[r] = <<>>

C11_Witness ==
  \E p, q \in Reqs :
    /\ IsSweep(p) /\ adminKey # "" /\ req[p].akey = ""
    /\ resp[p].status = 401
    /\ IsSweep(q) /\ Authorised(q) /\ CallIdx(q, "list") # {}

\* the listing call of the sweep succeeded
ListingSucceeded(r) == \E c \in CallIdx(r, "list") : calls[r][c].res = "ok"

SeqRange(s) == {s[k] : k \in 1..Len(s)}

\* product ids whose delete call the sweep saw answered with a 2xx status
DeletedOk(r) == {calls[r][c].arg : c \in {x \in CallIdx(r, "delete") : calls[r][x].res = "ok"}}

\* C12: an authorised sweep whose listing succeeds issues a delete call for
\* exactly the listed unpublished products that have a variant with a prefixed
\* SKU; its `deleted` list holds exactly the ids whose delete call succeeded
\* and deletedCount is the length of that list.
C12_SweepResult ==
  \A r \in Reqs :
    (IsSweep(r) /\ Done(r) /\ Authorised(r) /\ ListingSucceeded(r))
      => /\ {calls[r][c].arg : c \in CallIdx(r, "delete")}
              = {loc[r].products[k].id :
                   k \in {x \in 1..Len(loc[r].products) :
                            /\ ~loc[r].products[x].published
                            /\ shouldDelete(loc[r].products[x])}}
         /\ SeqRange(resp[r].deleted) = DeletedOk(r)
         /\ Len(resp[r].deleted) = Cardinality(DeletedOk(r))
         /\ resp[r].deletedCount = Len(resp[r].deleted)

ReplyOf(outcome) == IF outcome = "errjson" THEN ErrJson ELSE ErrText

\* C14: in every server variant, the REST helper and the GraphQL helper throw
\* on every upstream reply with a non-success status.
C14_NonOkThrows ==
  \A r \in Reqs : \A c \in 1..Len(calls[r]) :
    calls[r][c].res \in {"errjson", "errtext"}
      => /\ shopifyRequest(variant, ReplyOf(calls[r][c].res)).thrown
         /\ variant = "A" => shopifyRequestGraphQL(ReplyOf(calls[r][c].res)).thrown

\* number of delete calls for pid, over all requests, that the store answered
\* with a 2xx status
Removals(pid) ==
  Cardinality(UNION {{<<r, c>> : c \in {x \in CallIdx(r, "delete") :
                                          /\ calls[r][x].arg = pid
                                          /\ calls[r][x].res = "ok"}} : r \in Reqs})

\* C15: for two concurrent sweeps whose listings succeed, each product is
\* removed from the store at most once, both sweeps respond success, and no
\* product id is in the `deleted` list of both.
C15_ConcurrentSweeps ==
  \A p, q \in Reqs :
    (/\ p # q
     /\ IsSweep(p) /\ Done(p) /\ Authorised(p) /\ ListingSucceeded(p)
     /\ IsSweep(q) /\ Done(q) /\ Authorised(q) /\ ListingSucceeded(q))
      => /\ resp[p].status = 200 /\ resp[p].success
         /\ resp[q].status = 200 /\ resp[q].success
         /\ \A pid \in SeqRange(resp[p].deleted) \cup SeqRange(resp[q].deleted) :
              Removals(pid) <= 1
         /\ SeqRange(resp[p].deleted) \cap SeqRange(resp[q].deleted) = {}
====
